---- MODULE Spec2Model ----
(***************************************************************************)
(* The relay coordination protocol of escale (src/escale/relay/relay.py):  *)
(* clients push, pop, get, delete and repair one regular file F through a  *)
(* passive blob store, coordinating through a lock blob and a placeholder  *)
(* blob.  Every call of a client to the blob store (_list, _push, _get,    *)
(* _pop) is one step, so that the steps of different clients interleave    *)
(* the way the calls of independent processes do.                          *)
(***************************************************************************)
EXTENDS Integers, Sequences, FiniteSets, TLC

\* The client identifiers (Relay.client) of the processes sharing the relay.
Clients == {"A", "B", "C"}

\* Bound: number of operations (push/pop/get/delete/repair) started in a run.
MaxOps == 3

\* Bound: the puller counts (argument `placeholder` of pop) range over
\* 1..MaxPullers.
MaxPullers == 2

\* The textual last-modified value a pusher records in the placeholder.
LastModified == "1700000000"

\* Relay.__init__: lock_timeout=True stands for 3600 seconds.
DefaultLockTimeout == 3600

\* Bound: the commands given to escalectl in a run.
MaxCommands == 5

\* Bound: the workers that a daemon starts.
MaxChildren == 3

\* Bound: the clock of the recovery runs goes from 1 to MaxTime.
MaxTime == 3

\* The operating modes of an access controller (AccessController.mode).
Modes == {"download", "upload", "shared", "conservative"}

VARIABLES
    lockBlob,         \* the blob lock(F):        <<>> or <<[owner, mode]>>
    placeholderBlob,  \* the blob placeholder(F): <<>> or <<body>>, body a sequence of lines
    regularBlob,      \* the blob F:              <<>> or <<content>>
    localFile,        \* per client, its local copy of F: <<>> or <<content>>
    pc,               \* per client, its position in the operation it runs
    frame,            \* per client, the arguments and local variables of that operation
    result,           \* per client, what its last operation returned
    pullers,          \* the configured puller count N
    client,           \* per process, its identifier Relay.client ("" if it has none)
    lockTimeout,      \* Relay.lock_timeout, in seconds (0 if disabled)
    now,              \* the clock, time.time()
    lockMtime,        \* the mtime the listing reports for lock(F): <<>> or <<t>>
    ls,               \* a listing of the relay: a set of [dir, file, mtime, owner]
    ready,            \* what listReady returned for ls
    locks,            \* what listCorrupted returned for ls
    done,             \* the listing function applied last ("none" before any)
    answers,          \* what hasLock and hasPlaceholder said, if asked last
    transfered,       \* what listTransfered returned for ls, if asked last
    attempt,          \* a call to the blob store that fails: [cls, site, raised, missing]
    outcome,          \* what leaves the method of the relay that made that call
    name,             \* a path handed to the codec: [dir, file, hashed]
    coded,            \* what the codec or the filter applied last made of it
    access,           \* an access controller: [python, mode, located, table, local]
    said,             \* what the last call to the access controller returned
    host,             \* the machine of escalectl: [python, pidfile, daemon, children, orphans]
    status,           \* the last command of escalectl and what it returned
    launch,           \* the launcher: [delay, workers, queue, active, good, loop]
    nops,             \* operations started so far
    pushBegun,        \* history: some push of F has acquired the lock
    lastPusher,       \* history: the client that made the last _push of F ("" if none)
    downloaded,       \* history: clients that downloaded F since its last _push
    confirmed         \* history: a pop has deleted F since its last _push

vars == <<lockBlob, placeholderBlob, regularBlob, localFile, pc, frame, result,
          pullers, client, lockTimeout, now, lockMtime, ls, ready, locks, done,
          answers, transfered, attempt, outcome, name, coded, access, said,
          host, status, launch, nops, pushBegun, lastPusher, downloaded, confirmed>>

\* The lock blob as the blob store holds it: its body and its mtime.
lock == <<lockBlob, lockMtime>>

relay == <<lock, placeholderBlob, regularBlob>>

\* What no operation of the relay changes: the configuration and the clock.
listings == <<ls, ready, locks, done, answers, transfered>>

\* The failing call under study and its outcome.
failure == <<attempt, outcome>>

\* The name under study and what the codec made of it.
names == <<name, coded>>

\* The access controller and the answer to the last call made to it.
controller == <<access, said>>

\* What the protocol itself never touches.
\* The machine that runs escalectl and the last command given.
commands == <<host, status>>

tools == <<names, controller, commands, launch>>

env == <<pullers, client, lockTimeout, now, listings, failure, tools>>

\* ------------------------------------------------------- transport errors

\* The classes of relay of the module.
Classes == {"Relay", "IRelay", "PRelay"}

\* The methods of the relay that call the blob store (_list, _push, _pop,
\* _get), each named after the method: "list" stands for listReady,
\* listCorrupted and listTransfered, "unlink" for releaseLock.
Sites ==
    {"hasLock", "hasPlaceholder", "touch", "unlink", "getLockInfo",
     "releasePlace", "list", "push", "pop", "get", "markAsRead"}

\* The sites that push and pop go through.
PushPopSites ==
    {"hasLock", "hasPlaceholder", "touch", "unlink", "push", "pop", "markAsRead"}

\* An exception: its class and its errno (0 if it has none).
Exc(k, n) == [kind |-> k, errno |-> n]

\* What a blob-store call may raise: an EnvironmentError (without errno, with
\* "no such file" or with "too many open files") or another exception.
TransportErrors ==
    {Exc("EnvironmentError", n) : n \in {0, 2, 24}} \cup {Exc("Exception", 0)}

UnrecoverableError == Exc("UnrecoverableError", 0)

\* The method returns normally.
Returned == Exc("none", 0)

\* The method has not run yet.
Pending == Exc("pending", 0)

NoAttempt ==
    [cls |-> "Relay", site |-> "hasLock", raised |-> Returned, missing |-> FALSE]

\* _safe: an EnvironmentError with errno 24 becomes UnrecoverableError, any
\* other exception is raised again as it is.
Safe(exc) ==
    IF exc.kind = "EnvironmentError" /\ exc.errno = 24
        THEN UnrecoverableError
        ELSE exc

\* The call to the blob store goes through _safe: every site of Relay does;
\* IRelay and PRelay override hasLock and hasPlaceholder with a bare
\* self._list.
Wrapped(cls, site) ==
    ~(cls \in {"IRelay", "PRelay"} /\ site \in {"hasLock", "hasPlaceholder"})

\* What leaves the call site.
Leaves(cls, site, exc) == IF Wrapped(cls, site) THEN Safe(exc) ELSE exc

\* getLockInfo: UnrecoverableError is raised again, anything else gives an
\* empty LockInfo.
GetLockInfoHandler(exc) == IF exc = UnrecoverableError THEN exc ELSE Returned

\* releasePlace(remote_file, handle_missing): UnrecoverableError is raised
\* again, errno 24 becomes UnrecoverableError, anything else is logged if
\* handle_missing and raised again otherwise.
ReleasePlaceHandler(exc, handle_missing) ==
    IF exc = UnrecoverableError
        THEN exc
        ELSE IF exc.kind = "EnvironmentError" /\ exc.errno = 24
                 THEN UnrecoverableError
                 ELSE IF handle_missing THEN Returned ELSE exc

\* What leaves the method of the relay when its call to the blob store raises.
Outcome(a) ==
    LET exc == Leaves(a.cls, a.site, a.raised) IN
    CASE a.site = "getLockInfo" -> GetLockInfoHandler(exc)
      [] a.site = "releasePlace" -> ReleasePlaceHandler(exc, a.missing)
      [] OTHER -> exc

\* A path is a directory and a file name (os.path.split).
NoPath == [dir |-> "", file |-> <<>>]

\* hasLock and hasPlaceholder have not been asked.
NoAnswers == [path |-> NoPath, lock |-> <<>>, placeholder |-> <<>>]

\* The files of a local repository.
Files == {"f", "g"}

\* AccessAttributes.__init__: the symbols of a record and the record of a
\* resource that has none.
SymU == " "

SymT == "+"

SymF == "-"

Undefined == <<SymU, SymU>>

\* The key is not in the table.
Absent == <<>>

\* No access controller is under study.
NoAccess ==
    [python |-> 2, mode |-> "none", located |-> FALSE,
     table |-> [f \in Files |-> Absent], local |-> {}]

NotSaid == [op |-> "none", arg |-> <<>>, out |-> "none"]

\* A machine on which nothing runs and no pidfile exists.
NoHost ==
    [python |-> 2, pidfile |-> FALSE, daemon |-> FALSE, children |-> 0,
     orphans |-> 0]

\* No command has been given.
NoCommand == [n |-> 0, cmd |-> "none", ret |-> "none"]

\* The sections of the configuration file: one repository each.
Repos == {"r1", "r2"}

\* No worker was started for the section.
NoWorker == [life |-> 0, state |-> "none"]

\* No launcher runs.
NoLaunch ==
    [delay |-> 0, workers |-> [r \in Repos |-> NoWorker], queue |-> <<>>,
     active |-> 0, good |-> 0, loop |-> "none"]

\* No name is under study.
NoName == [dir |-> "", file |-> <<>>, hashed |-> FALSE]

\* The codec has not been applied.
NotCoded ==
    [op |-> "none", out |-> NoPath, is |-> FALSE, back |-> NoPath,
     error |-> "", kept |-> FALSE]

\* ------------------------------------------------------------------ blobs

NoBlob == <<>>

Blob(x) == <<x>>

Exists(b) == b # <<>>

Content(b) == b[1]

\* The transport's _push: the remote blob becomes the whole file sent.
Put(x) == Blob(x)

\* The content of the local file of client c before any transfer: two chunks,
\* so that a mix of two files is a value different from both.
FileOf(c) == <<c, c>>

\* repr(LockInfo(owner=self.client, mode=mode)), as parse_lock_file reads it back.
LockInfo(owner, mode) == [owner |-> owner, mode |-> mode]

\* LockInfo(): no owner, no mode.
ZeroLockInfo == [owner |-> "", mode |-> ""]

\* ------------------------------------------------------- pure helpers

\* Relay.hasLock: the lock name is in the listing of its directory.
HasLock(lk) == Exists(lk)

\* Relay.hasPlaceholder: the placeholder name is in the listing.
HasPlaceholder(ph) == Exists(ph)

\* pop: nreads = len(f.readlines()) - 1
NReads(body) == Len(body) - 1

\* pop: let = nreads < placeholder - 1
Let(body, n) == NReads(body) < n - 1

\* Faulty variant of ReadsPlaceholder: the test `1 < placeholder` forgotten.
ReadsPlaceholderAlways(has, n) == has

\* pop: a placeholder is downloaded only `if has_placeholder and 1 < placeholder`
ReadsPlaceholder(has, n) == has /\ 1 < n

\* markAsRead: f.write('\n{}'.format(self.client)) on a file opened in append
\* mode; an empty file becomes an empty first line followed by the client.
AppendClient(body, c) == IF body = <<>> THEN <<"", c>> ELSE Append(body, c)

\* touch(remote, content): the body written; no content gives an empty file.
TouchBody(content) == IF content = "" THEN <<>> ELSE <<content>>

\* Faulty variant of PushedContent: a transfer that rewrites only the tail of
\* a blob already there.
PushedContentPartial(c) ==
    IF Exists(regularBlob)
      THEN <<Content(regularBlob)[1], Content(localFile[c])[2]>>
      ELSE Content(localFile[c])

\* push: the file sent by self._push(local_file, remote_dest).
PushedContent(c) == Content(localFile[c])

\* ------------------------------------------------------- frames

IdleFrame ==
    [op |-> "none", blocking |-> FALSE, lm |-> FALSE, has |-> FALSE,
     let |-> FALSE, tmp |-> <<>>, lock |-> ZeroLockInfo, mtime |-> <<>>,
     mode |-> "none"]

NewFrame(o, b, l) == [IdleFrame EXCEPT !.op = o, !.blocking = b, !.lm = l]

\* What a finished operation leaves: its name and arguments.
DoneFrame(c) == [IdleFrame EXCEPT !.op = frame[c].op, !.lm = frame[c].lm]

Busy(c) == pc[c] # "idle"

Init ==
    /\ lockBlob = NoBlob
    /\ placeholderBlob = NoBlob
    /\ regularBlob = NoBlob
    /\ localFile = [c \in Clients |-> Blob(FileOf(c))]
    /\ pc = [c \in Clients |-> "idle"]
    /\ frame = [c \in Clients |-> IdleFrame]
    /\ result = [c \in Clients |-> "none"]
    /\ pullers \in 1..MaxPullers
    /\ client = [c \in Clients |-> c]
    /\ lockTimeout = DefaultLockTimeout
    /\ now = 1
    /\ lockMtime = NoBlob
    /\ ls = {}
    /\ ready = {}
    /\ locks = {}
    /\ done = "none"
    /\ answers = NoAnswers
    /\ transfered = {}
    /\ attempt = NoAttempt
    /\ outcome = Pending
    /\ name = NoName
    /\ coded = NotCoded
    /\ access = NoAccess
    /\ said = NotSaid
    /\ host = NoHost
    /\ status = NoCommand
    /\ launch = NoLaunch
    /\ nops = 0
    /\ pushBegun = FALSE
    /\ lastPusher = ""
    /\ downloaded = {}
    /\ confirmed = FALSE

\* ------------------------------------------------------- control

\* Faulty variant of Refused: a non-blocking call is never turned away.
RefusedNever(lk, blocking) == FALSE

\* acquireLock(blocking=False): `elif self.hasLock(remote_file): return False`.
Refused(lk, blocking) == HasLock(lk) /\ ~blocking

\* A client calls an operation (the call itself touches nothing shared).
Call(c) ==
    /\ pc[c] = "idle"
    /\ nops < MaxOps
    /\ nops' = nops + 1

\* push, pop, get and delete start with acquireLock, whose first call to the
\* blob store is the test self.hasLock(remote_file): a non-blocking call
\* returns False if the lock is there, a blocking one waits for it to go.
Start(c, o, b, l) ==
    /\ Call(c)
    /\ IF Refused(lockBlob, b)
         THEN /\ pc' = pc
              /\ frame' = [frame EXCEPT ![c] = [IdleFrame EXCEPT !.op = o, !.lm = l]]
              /\ result' = [result EXCEPT ![c] = "false"]
         ELSE /\ pc' = [pc EXCEPT ![c] =
                        IF HasLock(lockBlob) THEN "acquire" ELSE "acquire_touch"]
              /\ frame' = [frame EXCEPT ![c] = NewFrame(o, b, l)]
              /\ result' = [result EXCEPT ![c] = "none"]

\* The operation returns r.
Return(c, r) ==
    /\ pc' = [pc EXCEPT ![c] = "idle"]
    /\ frame' = [frame EXCEPT ![c] = DoneFrame(c)]
    /\ result' = [result EXCEPT ![c] = r]

\* A call on a missing blob raises (unlink, _get and _pop fail on a missing
\* file): the exception leaves the operation, nothing is undone or released.
Raise(c) == Return(c, "notfound")

Goto(c, p) ==
    /\ pc' = [pc EXCEPT ![c] = p]
    /\ UNCHANGED <<frame, result>>

history == <<nops, pushBegun, lastPusher, downloaded, confirmed>>

\* ------------------------------------------------------- acquireLock

\* Faulty variant of LockMode: every lock is written with mode 'r'.
LockModeRead(o) == "r"

\* The mode each operation passes to acquireLock.
LockMode(o) == IF o = "push" THEN "w" ELSE "r"

\* The step that follows a successful acquireLock in each operation.
AfterAcquire(c) ==
    CASE frame[c].op = "push" -> IF frame[c].lm THEN "push_placeholder" ELSE "push_transfer"
      [] frame[c].op = "pop" -> "pop_has"
      [] frame[c].op = "get" -> "get_transfer"
      [] OTHER -> "delete_unlink"

\* Faulty variant of AfterPoll: the poll does not wait for the lock to go.
AfterPollImpatient(lk) == "acquire_touch"

\* acquireLock(blocking=True): the loop goes on while the lock is there.
AfterPoll(lk) == IF HasLock(lk) THEN "acquire" ELSE "acquire_touch"

\* acquireLock(blocking=True): `while self.hasLock(remote_file): time.sleep(blocking)`.
AcquirePoll(c) ==
    /\ pc[c] = "acquire"
    /\ Goto(c, AfterPoll(lockBlob))
    /\ UNCHANGED <<relay, localFile, env, history>>

\* acquireLock: self.touch(self.lock(remote_file), content=repr(lock_info)).
AcquireTouch(c) ==
    /\ pc[c] = "acquire_touch"
    /\ lockBlob' = Put(LockInfo(client[c], LockMode(frame[c].op)))
    /\ lockMtime' = Blob(now)
    /\ pc' = [pc EXCEPT ![c] = AfterAcquire(c)]
    /\ frame' = [frame EXCEPT ![c].blocking = FALSE]
    /\ pushBegun' = (pushBegun \/ frame[c].op = "push")
    /\ UNCHANGED result
    /\ UNCHANGED <<placeholderBlob, regularBlob, localFile, env, nops,
                   lastPusher, downloaded, confirmed>>

\* releaseLock: self.unlink(self.lock(remote_file)); unlink raises on a missing
\* blob.  It is the last call of push, pop, get and delete, which then return True.
ReleaseLock(c) ==
    /\ pc[c] = "release"
    /\ IF Exists(lockBlob)
         THEN lockBlob' = NoBlob /\ lockMtime' = NoBlob /\ Return(c, "true")
         ELSE UNCHANGED lock /\ Raise(c)
    /\ UNCHANGED <<placeholderBlob, regularBlob, localFile, env, history>>

\* ------------------------------------------------------- push

PushCall(c, b, l) ==
    /\ Exists(localFile[c])
    /\ Start(c, "push", b, l)
    /\ UNCHANGED <<relay, localFile, env, pushBegun, lastPusher, downloaded, confirmed>>

\* push: if last_modified: self.updatePlaceholder(remote_dest, last_modified).
PushPlaceholder(c) ==
    /\ pc[c] = "push_placeholder"
    /\ placeholderBlob' = Put(TouchBody(LastModified))
    /\ Goto(c, "push_transfer")
    /\ UNCHANGED <<lock, regularBlob, localFile, env, history>>

\* push: self._safe(self._push, local_file, remote_dest).
PushTransfer(c) ==
    /\ pc[c] = "push_transfer"
    /\ regularBlob' = Put(PushedContent(c))
    /\ lastPusher' = c
    /\ downloaded' = {}
    /\ confirmed' = FALSE
    /\ Goto(c, "release")
    /\ UNCHANGED <<lock, placeholderBlob, localFile, env, nops, pushBegun>>

\* ------------------------------------------------------- markAsRead

\* Faulty variant of MarkedBody: the placeholder goes back as it came.
MarkedBodySame(body, c, get) == body

\* markAsRead(remote_file, local_placeholder): `get = not local_placeholder`; the
\* placeholder is downloaded, and the client appended to it, only `if get`.
MarkedBody(body, c, get) == IF get THEN AppendClient(body, c) ELSE body

\* markAsRead: with a local_placeholder given (pop, puller count above 1) the
\* only call is the _push of that file; otherwise the first call is the _get of
\* the placeholder, which raises when the placeholder is missing.
MarkAsRead(c) ==
    /\ pc[c] = "mark"
    /\ IF Exists(frame[c].tmp)
         THEN /\ placeholderBlob' = Put(MarkedBody(Content(frame[c].tmp), client[c], FALSE))
              /\ Goto(c, "release")
         ELSE /\ UNCHANGED placeholderBlob
              /\ IF Exists(placeholderBlob)
                   THEN /\ frame' = [frame EXCEPT ![c].tmp =
                                Blob(MarkedBody(Content(placeholderBlob), client[c], TRUE))]
                        /\ pc' = [pc EXCEPT ![c] = "mark_push"]
                        /\ UNCHANGED result
                   ELSE Raise(c)
    /\ UNCHANGED <<lock, regularBlob, localFile, env, history>>

\* markAsRead: self._safe(self._push, local_placeholder, remote_placeholder).
MarkPush(c) ==
    /\ pc[c] = "mark_push"
    /\ placeholderBlob' = Put(Content(frame[c].tmp))
    /\ Goto(c, "release")
    /\ UNCHANGED <<lock, regularBlob, localFile, env, history>>

\* ------------------------------------------------------- pop

PopCall(c, b) ==
    /\ Start(c, "pop", b, FALSE)
    /\ UNCHANGED <<relay, localFile, env, pushBegun, lastPusher, downloaded, confirmed>>

\* pop: has_placeholder = self.hasPlaceholder(remote_file).
PopHasPlaceholder(c) ==
    /\ pc[c] = "pop_has"
    /\ frame' = [frame EXCEPT ![c].has = HasPlaceholder(placeholderBlob)]
    /\ pc' = [pc EXCEPT ![c] =
                IF ReadsPlaceholder(HasPlaceholder(placeholderBlob), pullers)
                  THEN "pop_placeholder" ELSE "pop_transfer"]
    /\ UNCHANGED <<result, relay, localFile, env, history>>

\* pop: the placeholder is downloaded, its lines counted, `let` computed.
PopGetPlaceholder(c) ==
    /\ pc[c] = "pop_placeholder"
    /\ IF Exists(placeholderBlob)
         THEN /\ frame' = [frame EXCEPT ![c].tmp = placeholderBlob,
                                        ![c].let = Let(Content(placeholderBlob), pullers)]
              /\ pc' = [pc EXCEPT ![c] = "pop_transfer"]
              /\ UNCHANGED result
         ELSE Raise(c)
    /\ UNCHANGED <<relay, localFile, env, history>>

\* Faulty variant of AfterPopTransfer: the pop that deletes F releases the
\* placeholder with it.
AfterPopTransferReleasing(c) ==
    IF frame[c].let
      THEN IF frame[c].has THEN "mark" ELSE "pop_update"
      ELSE "repair_place"

\* pop: the step that follows the transfer.
AfterPopTransfer(c) == IF frame[c].has THEN "mark" ELSE "pop_update"

\* pop: `if let: _get(remote_file, local_dest) else: _pop(remote_file, local_dest)`.
PopTransfer(c) ==
    /\ pc[c] = "pop_transfer"
    /\ IF Exists(regularBlob)
         THEN /\ localFile' = [localFile EXCEPT ![c] = regularBlob]
              /\ regularBlob' = IF frame[c].let THEN regularBlob ELSE NoBlob
              /\ downloaded' = downloaded \cup {c}
              /\ confirmed' = (confirmed \/ ~frame[c].let)
              /\ Goto(c, AfterPopTransfer(c))
         ELSE /\ UNCHANGED <<localFile, regularBlob, downloaded, confirmed>>
              /\ Raise(c)
    /\ UNCHANGED <<lock, placeholderBlob, env, nops, pushBegun, lastPusher>>

\* pop: without a placeholder, self.updatePlaceholder(remote_file) writes an
\* empty one.
PopUpdatePlaceholder(c) ==
    /\ pc[c] = "pop_update"
    /\ placeholderBlob' = Put(TouchBody(""))
    /\ Goto(c, "release")
    /\ UNCHANGED <<lock, regularBlob, localFile, env, history>>

\* ------------------------------------------------------- get

GetCall(c, b) ==
    /\ Start(c, "get", b, FALSE)
    /\ UNCHANGED <<relay, localFile, env, pushBegun, lastPusher, downloaded, confirmed>>

\* get: self._safe(self._get, remote_file, local_dest).
GetTransfer(c) ==
    /\ pc[c] = "get_transfer"
    /\ IF Exists(regularBlob)
         THEN /\ localFile' = [localFile EXCEPT ![c] = regularBlob]
              /\ downloaded' = downloaded \cup {c}
              /\ Goto(c, "get_has")
         ELSE /\ UNCHANGED <<localFile, downloaded>>
              /\ Raise(c)
    /\ UNCHANGED <<relay, env, nops, pushBegun, lastPusher, confirmed>>

\* get: `if placeholder and self.hasPlaceholder(remote_file)`.
GetHasPlaceholder(c) ==
    /\ pc[c] = "get_has"
    /\ Goto(c, IF HasPlaceholder(placeholderBlob) THEN "mark" ELSE "release")
    /\ UNCHANGED <<relay, localFile, env, history>>

\* ------------------------------------------------------- delete

DeleteCall(c, b) ==
    /\ Start(c, "delete", b, FALSE)
    /\ UNCHANGED <<relay, localFile, env, pushBegun, lastPusher, downloaded, confirmed>>

\* delete: self.unlink(remote_file), then markAsRead.
DeleteUnlink(c) ==
    /\ pc[c] = "delete_unlink"
    /\ IF Exists(regularBlob)
         THEN regularBlob' = NoBlob /\ Goto(c, "mark")
         ELSE UNCHANGED regularBlob /\ Raise(c)
    /\ UNCHANGED <<lock, placeholderBlob, localFile, env, history>>

\* ------------------------------------------------------- listCorrupted, repair

\* Faulty variant of OwnLock: a lock with an owner is listed whoever owns it.
OwnLockAny(info, id) == info.owner # ""

\* listCorrupted: a lock with an owner is listed when the owner is this client.
OwnLock(info, id) == info.owner # "" /\ info.owner = id

\* The truth value Python gives the mtime of a listing entry: None and 0 are
\* false.
Truthy(mtime) == mtime # <<>> /\ mtime[1] # 0

\* Faulty variant of Expired: a lock whose age equals lock_timeout counts.
ExpiredAtTimeout(mtime, timeout, t) ==
    Truthy(mtime) /\ timeout # 0 /\ timeout <= t - mtime[1]

\* listCorrupted: `elif mtime and self.lock_timeout:` and then
\* `if self.lock_timeout < time.time() - mtime`.
Expired(mtime, timeout, t) ==
    Truthy(mtime) /\ timeout # 0 /\ timeout < t - mtime[1]

\* Faulty variant of IsCorrupted: every lock is judged by its age, whoever
\* owns it.
IsCorruptedByAge(info, mtime, id, timeout, t) == Expired(mtime, timeout, t)

\* listCorrupted: the test that appends a lock to the result.
IsCorrupted(info, mtime, id, timeout, t) ==
    IF info.owner # "" THEN OwnLock(info, id) ELSE Expired(mtime, timeout, t)

\* listCorrupted: `if not (self.client or self.lock_timeout): return []`.
NothingToList(id, timeout) == id = "" /\ timeout = 0

\* The manager's repair pass: listCorrupted, then repair of the lock it
\* returns, with the accessor of the local file that an access controller in
\* mode m gives.
RepairCall(c, m) ==
    /\ Call(c)
    /\ IF NothingToList(client[c], lockTimeout)
         THEN /\ pc' = pc
              /\ frame' = [frame EXCEPT ![c] = [IdleFrame EXCEPT !.op = "repair"]]
              /\ result' = [result EXCEPT ![c] = "none"]
         ELSE /\ pc' = [pc EXCEPT ![c] = "corrupted_list"]
              /\ frame' = [frame EXCEPT ![c] =
                              [NewFrame("repair", FALSE, FALSE) EXCEPT !.mode = m]]
              /\ result' = [result EXCEPT ![c] = "none"]
    /\ UNCHANGED <<relay, localFile, env, pushBegun, lastPusher, downloaded, confirmed>>

\* listCorrupted: ls = self._list(remote_dir, stats=['mtime']); without a lock
\* in the listing the result is empty and nothing is repaired.
ListCorruptedList(c) ==
    /\ pc[c] = "corrupted_list"
    /\ IF Exists(lockBlob)
         THEN /\ pc' = [pc EXCEPT ![c] = "corrupted_info"]
              /\ frame' = [frame EXCEPT ![c].mtime = lockMtime]
              /\ UNCHANGED result
         ELSE Return(c, "none")
    /\ UNCHANGED <<relay, localFile, env, history>>

\* repair: the first step of each branch on lock.mode.
RepairBranch(info) ==
    CASE info.mode = "w" -> "repair_exists"
      [] info.mode = "r" -> "repair_local"
      [] OTHER -> "repair_exists"

\* getLockInfo: the _get of the lock blob; a lock that cannot be read gives
\* LockInfo(), with no owner, no mode and no target.
GetLockInfo(lk) == IF Exists(lk) THEN Content(lk) ELSE ZeroLockInfo

\* getLockInfo: parse_lock_file(local_lock, target=remote_file) sets the target
\* of a lock that was read; the LockInfo() of a lock that cannot be read has
\* none.
TargetOf(lk) == IF Exists(lk) THEN <<"F">> ELSE <<>>

\* listCorrupted: lock = self.getLockInfo(...), then the test on its owner and
\* on the mtime of the listing.  A listed lock is repaired; the repair of a
\* lock without target fails.
ListCorruptedInfo(c) ==
    /\ pc[c] = "corrupted_info"
    /\ IF IsCorrupted(GetLockInfo(lockBlob), frame[c].mtime, client[c], lockTimeout, now)
         THEN IF Exists(lockBlob)
                THEN /\ frame' = [frame EXCEPT ![c].lock = GetLockInfo(lockBlob)]
                     /\ pc' = [pc EXCEPT ![c] = RepairBranch(GetLockInfo(lockBlob))]
                     /\ UNCHANGED result
                ELSE Return(c, "error")
         ELSE Return(c, "none")
    /\ UNCHANGED <<relay, localFile, env, history>>

\* repair, mode 'w' (and the old-style locks): if self.exists(remote_file).
RepairExists(c) ==
    /\ pc[c] = "repair_exists"
    /\ frame' = [frame EXCEPT ![c].has = Exists(regularBlob)]
    /\ pc' = [pc EXCEPT ![c] = IF Exists(regularBlob) THEN "repair_unlink" ELSE "repair_place"]
    /\ UNCHANGED result
    /\ UNCHANGED <<relay, localFile, env, history>>

\* repair, mode 'w': self.unlink(remote_file).
RepairUnlink(c) ==
    /\ pc[c] = "repair_unlink"
    /\ IF Exists(regularBlob)
         THEN regularBlob' = NoBlob /\ Goto(c, "repair_place")
         ELSE UNCHANGED regularBlob /\ Raise(c)
    /\ UNCHANGED <<lock, placeholderBlob, localFile, env, history>>

\* AccessController.accessor: the delete of an existing local file unlinks it
\* in mode download and raises PermissionError in every other mode.
MayDelete(m) == m = "download"

\* repair, mode 'r': `if local_file.exists(): local_file.delete()`, then
\* `if not self.exists(remote_file)` decides whether the placeholder is released.
RepairLocal(c) ==
    /\ pc[c] = "repair_local"
    /\ IF Exists(localFile[c]) /\ ~MayDelete(frame[c].mode)
         THEN /\ UNCHANGED localFile
              /\ Return(c, "denied")
         ELSE /\ localFile' = [localFile EXCEPT ![c] = NoBlob]
              /\ Goto(c, IF Exists(regularBlob) THEN "repair_release" ELSE "repair_place")
    /\ UNCHANGED <<relay, env, history>>

\* Faulty variant of ReleasePlace: a missing placeholder raises, as with
\* handle_missing=False.
ReleasePlaceStrict(c) ==
    /\ pc[c] = "repair_place"
    /\ IF Exists(placeholderBlob)
         THEN placeholderBlob' = NoBlob /\ Goto(c, "repair_release")
         ELSE UNCHANGED placeholderBlob /\ Raise(c)
    /\ UNCHANGED <<lock, regularBlob, localFile, env, history>>

\* releasePlace(remote_file, True): the placeholder is unlinked, a missing one
\* is ignored.
ReleasePlace(c) ==
    /\ pc[c] = "repair_place"
    /\ placeholderBlob' = NoBlob
    /\ Goto(c, "repair_release")
    /\ UNCHANGED <<lock, regularBlob, localFile, env, history>>

\* repair: self.releaseLock(remote_file), the last call.
RepairRelease(c) ==
    /\ pc[c] = "repair_release"
    /\ IF Exists(lockBlob)
         THEN lockBlob' = NoBlob /\ lockMtime' = NoBlob /\ Return(c, "true")
         ELSE UNCHANGED lock /\ Raise(c)
    /\ UNCHANGED <<placeholderBlob, regularBlob, localFile, env, history>>

\* ------------------------------------------------------- transport errors

\* Any call to the blob store may raise a transport error (an
\* EnvironmentError), which _safe lets through to the caller of the operation.
TransportError(c) ==
    /\ Busy(c)
    /\ Return(c, "error")
    /\ UNCHANGED <<relay, localFile, env, history>>

Next ==
    \E c \in Clients :
        \/ \E b \in BOOLEAN, l \in BOOLEAN : PushCall(c, b, l)
        \/ \E b \in BOOLEAN : PopCall(c, b)
        \/ \E b \in BOOLEAN : GetCall(c, b)
        \/ \E b \in BOOLEAN : DeleteCall(c, b)
        \/ \E m \in Modes : RepairCall(c, m)
        \/ AcquirePoll(c)
        \/ AcquireTouch(c)
        \/ ReleaseLock(c)
        \/ PushPlaceholder(c)
        \/ PushTransfer(c)
        \/ PopHasPlaceholder(c)
        \/ PopGetPlaceholder(c)
        \/ PopTransfer(c)
        \/ PopUpdatePlaceholder(c)
        \/ GetTransfer(c)
        \/ GetHasPlaceholder(c)
        \/ DeleteUnlink(c)
        \/ MarkAsRead(c)
        \/ MarkPush(c)
        \/ ListCorruptedList(c)
        \/ ListCorruptedInfo(c)
        \/ RepairExists(c)
        \/ RepairUnlink(c)
        \/ RepairLocal(c)
        \/ ReleasePlace(c)
        \/ RepairRelease(c)
        \/ TransportError(c)

Spec == Init /\ [][Next]_vars

\* ------------------------------------------------------- recovery runs

\* The identifiers the processes may be configured with: every process named,
\* or process "A" without identifier.
Identities ==
    {[c \in Clients |-> IF c \in anon THEN "" ELSE c] : anon \in {{}, {"A"}}}

\* Runs in which time passes and a process may have no identifier, so that a
\* lock is left behind and ages.  Process "A" has the file F to push; the
\* others have no local copy of it yet.
RecoveryInit ==
    /\ lockBlob = NoBlob
    /\ placeholderBlob = NoBlob
    /\ regularBlob = NoBlob
    /\ localFile = [c \in Clients |-> IF c = "A" THEN Blob(FileOf(c)) ELSE NoBlob]
    /\ pc = [c \in Clients |-> "idle"]
    /\ frame = [c \in Clients |-> IdleFrame]
    /\ result = [c \in Clients |-> "none"]
    /\ pullers = 1
    /\ client \in Identities
    /\ lockTimeout \in {0, 1}
    /\ now = 1
    /\ lockMtime = NoBlob
    /\ ls = {}
    /\ ready = {}
    /\ locks = {}
    /\ done = "none"
    /\ answers = NoAnswers
    /\ transfered = {}
    /\ attempt = NoAttempt
    /\ outcome = Pending
    /\ name = NoName
    /\ coded = NotCoded
    /\ access = NoAccess
    /\ said = NotSaid
    /\ host = NoHost
    /\ status = NoCommand
    /\ launch = NoLaunch
    /\ nops = 0
    /\ pushBegun = FALSE
    /\ lastPusher = ""
    /\ downloaded = {}
    /\ confirmed = FALSE

\* A second passes while a lock is on the relay.
Tick ==
    /\ Exists(lockBlob)
    /\ now < MaxTime
    /\ now' = now + 1
    /\ UNCHANGED <<relay, localFile, pc, frame, result, pullers, client,
                   lockTimeout, listings, failure, tools, history>>

\* The operations of a recovery run: push, pop and the repair pass.
RecoveryNext ==
    \/ Tick
    \/ \E c \in Clients :
        \/ \E b \in BOOLEAN, l \in BOOLEAN : PushCall(c, b, l)
        \/ \E b \in BOOLEAN : PopCall(c, b)
        \/ \E m \in Modes : RepairCall(c, m)
        \/ AcquirePoll(c)
        \/ AcquireTouch(c)
        \/ ReleaseLock(c)
        \/ PushPlaceholder(c)
        \/ PushTransfer(c)
        \/ PopHasPlaceholder(c)
        \/ PopTransfer(c)
        \/ PopUpdatePlaceholder(c)
        \/ MarkAsRead(c)
        \/ MarkPush(c)
        \/ ListCorruptedList(c)
        \/ ListCorruptedInfo(c)
        \/ RepairExists(c)
        \/ RepairUnlink(c)
        \/ RepairLocal(c)
        \/ ReleasePlace(c)
        \/ RepairRelease(c)
        \/ TransportError(c)

RecoverySpec == RecoveryInit /\ [][RecoveryNext]_vars

\* ------------------------------------------------------- blocking runs

\* The steps of client c inside push, pop and get: every call it makes to the
\* blob store after the call of the operation.
Step(c) ==
    \/ AcquirePoll(c)
    \/ AcquireTouch(c)
    \/ ReleaseLock(c)
    \/ PushPlaceholder(c)
    \/ PushTransfer(c)
    \/ PopHasPlaceholder(c)
    \/ PopGetPlaceholder(c)
    \/ PopTransfer(c)
    \/ PopUpdatePlaceholder(c)
    \/ GetTransfer(c)
    \/ GetHasPlaceholder(c)
    \/ MarkAsRead(c)
    \/ MarkPush(c)

\* Client c has not called any operation yet.
Fresh(c) == frame[c].op = "none" /\ result[c] = "none"

\* The runs of one push of F by "A" and one blocking push, pop or get of F by
\* "B", without transport errors.
PollNext ==
    \/ \E b \in BOOLEAN, l \in BOOLEAN : Fresh("A") /\ PushCall("A", b, l)
    \/ \E l \in BOOLEAN : Fresh("B") /\ PushCall("B", TRUE, l)
    \/ Fresh("B") /\ PopCall("B", TRUE)
    \/ Fresh("B") /\ GetCall("B", TRUE)
    \/ Step("A")
    \/ Step("B")

\* Each client is a running process: a call to the blob store that it can
\* make is eventually made.
PollSpec ==
    Init /\ [][PollNext]_vars /\ WF_vars(Step("A")) /\ WF_vars(Step("B"))

\* ------------------------------------------------------- failing calls

\* A relay of some class makes a call to the blob store, which raises.
FailInit ==
    /\ lockBlob = NoBlob
    /\ placeholderBlob = NoBlob
    /\ regularBlob = NoBlob
    /\ localFile = [c \in Clients |-> NoBlob]
    /\ pc = [c \in Clients |-> "idle"]
    /\ frame = [c \in Clients |-> IdleFrame]
    /\ result = [c \in Clients |-> "none"]
    /\ pullers = 1
    /\ client = [c \in Clients |-> c]
    /\ lockTimeout = DefaultLockTimeout
    /\ now = 1
    /\ lockMtime = NoBlob
    /\ ls = {}
    /\ ready = {}
    /\ locks = {}
    /\ done = "none"
    /\ answers = NoAnswers
    /\ transfered = {}
    /\ attempt \in [cls : Classes, site : Sites, raised : TransportErrors,
                    missing : BOOLEAN]
    /\ outcome = Pending
    /\ name = NoName
    /\ coded = NotCoded
    /\ access = NoAccess
    /\ said = NotSaid
    /\ host = NoHost
    /\ status = NoCommand
    /\ launch = NoLaunch
    /\ nops = 0
    /\ pushBegun = FALSE
    /\ lastPusher = ""
    /\ downloaded = {}
    /\ confirmed = FALSE

\* The exception goes up through _safe and the handlers of the method.
Fail ==
    /\ outcome = Pending
    /\ outcome' = Outcome(attempt)
    /\ UNCHANGED <<attempt, relay, localFile, pc, frame, result, pullers, client,
                   lockTimeout, now, listings, tools, history>>

FailSpec == FailInit /\ [][Fail]_vars

\* ------------------------------------------------------- names

\* File names are sequences of characters.
StartsWith(s, p) == Len(p) <= Len(s) /\ SubSeq(s, 1, Len(p)) = p

EndsWith(s, p) == Len(p) <= Len(s) /\ SubSeq(s, Len(s) - Len(p) + 1, Len(s)) = p

\* Relay.__init__: the prefixes and suffixes of the special files.
PlaceholderPrefix == <<".">>

PlaceholderSuffix == <<".", "p", "l", "a", "c", "e", "h", "o", "l", "d", "e", "r">>

LockPrefix == <<".">>

LockSuffix == <<".", "l", "o", "c", "k">>

MessagePrefix == <<".">>

MessageSuffix == <<".", "m", "e", "s", "s", "a", "g", "e">>

\* Relay._placeholder, Relay._lock and Relay._message (no message hash).
PlaceholderName(filename) == PlaceholderPrefix \o filename \o PlaceholderSuffix

LockName(filename) == LockPrefix \o filename \o LockSuffix

MessageName(filename) == MessagePrefix \o filename \o MessageSuffix

\* Relay._isPlaceholder, Relay._isLock, Relay._isMessage, Relay._isSpecial.
IsPlaceholder(filename) ==
    StartsWith(filename, PlaceholderPrefix) /\ EndsWith(filename, PlaceholderSuffix)

IsLock(filename) ==
    StartsWith(filename, LockPrefix) /\ EndsWith(filename, LockSuffix)

IsMessage(filename) ==
    StartsWith(filename, MessagePrefix) /\ EndsWith(filename, MessageSuffix)

IsSpecial(filename) ==
    IsLock(filename) \/ IsPlaceholder(filename) \/ IsMessage(filename)

\* Relay._fromLock: filename[len(prefix):-len(suffix)].
FromLock(filename) ==
    SubSeq(filename, Len(LockPrefix) + 1, Len(filename) - Len(LockSuffix))

\* Relay._fromPlaceholder: filename[len(prefix):-len(suffix)].
FromPlaceholder(filename) ==
    SubSeq(filename, Len(PlaceholderPrefix) + 1,
           Len(filename) - Len(PlaceholderSuffix))

\* A path is a directory and a file name (os.path.split); join puts them
\* together again.
Join(filedir, filename) == [dir |-> filedir, file |-> filename]

\* ------------------------------------------------------- listings

\* Bound: a listing holds at most MaxListing entries.
MaxListing == 2

\* The directories and the file names a listing is drawn from: regular
\* files, a hidden file, a file that only ends like a lock, and the special
\* files of two regular files.
Dirs == {"", "d"}

Stems == {<<"a">>, <<"b">>}

FileNames ==
    Stems \cup {<<".", "a">>, <<"a">> \o LockSuffix}
          \cup {LockName(f) : f \in Stems}
          \cup {PlaceholderName(f) : f \in Stems}
          \cup {MessageName(f) : f \in Stems}

\* The mtime that _list reports with stats=['mtime']: none, or seconds since
\* the epoch.
Mtimes == {<<>>} \cup {<<t>> : t \in 0..(MaxTime - 1)}

\* The values of lock_timeout: 0 (False) disables it.
Timeouts == 0..(MaxTime - 1)

\* The owner that the body of a lock blob records.
Owners == {"", "A", "B"}

\* The entries of a listing.  The mtime and the owner matter for locks only.
Entries ==
    {[dir |-> d, file |-> f, mtime |-> m, owner |-> o] :
        d \in Dirs, f \in {g \in FileNames : IsLock(g)}, m \in Mtimes, o \in Owners}
    \cup
    {[dir |-> d, file |-> f, mtime |-> <<>>, owner |-> ""] :
        d \in Dirs, f \in {g \in FileNames : ~IsLock(g)}}

\* The paths of a listing, as _list returns them without stats.
Paths(l) == {Join(e.dir, e.file) : e \in l}

\* Faulty variant of IsReady: a lock of that name in any directory counts.
IsReadyAnywhere(file, paths) ==
    /\ ~IsLock(file.file)
    /\ ~IsPlaceholder(file.file)
    /\ \A q \in paths : q.file # LockName(file.file)

\* listReady: the test made on each file of the listing.
IsReady(file, paths) ==
    /\ ~IsLock(file.file)
    /\ ~IsPlaceholder(file.file)
    /\ Join(file.dir, LockName(file.file)) \notin paths

\* listReady: the loop over the listing.
RECURSIVE ReadyLoop(_, _)
ReadyLoop(todo, paths) ==
    IF todo = {} THEN {}
    ELSE LET file == CHOOSE f \in todo : TRUE
         IN  (IF IsReady(file, paths) THEN {file} ELSE {})
                 \cup ReadyLoop(todo \ {file}, paths)

\* listCorrupted: the loop over the listing; each lock listed is read with
\* getLockInfo, and appended with the regular file it locks as target.
RECURSIVE CorruptedLoop(_, _, _, _)
CorruptedLoop(todo, id, timeout, t) ==
    IF todo = {} THEN {}
    ELSE LET e == CHOOSE f \in todo : TRUE
             info == [owner |-> e.owner, mode |-> ""]
         IN  (IF IsLock(e.file) /\ IsCorrupted(info, e.mtime, id, timeout, t)
                THEN {[target |-> Join(e.dir, FromLock(e.file)), owner |-> e.owner]}
                ELSE {})
                 \cup CorruptedLoop(todo \ {e}, id, timeout, t)

\* The process that lists.
Lister == "A"

ListInit ==
    /\ lockBlob = NoBlob
    /\ placeholderBlob = NoBlob
    /\ regularBlob = NoBlob
    /\ localFile = [c \in Clients |-> NoBlob]
    /\ pc = [c \in Clients |-> "idle"]
    /\ frame = [c \in Clients |-> IdleFrame]
    /\ result = [c \in Clients |-> "none"]
    /\ pullers = 1
    /\ client \in Identities
    /\ lockTimeout \in Timeouts
    /\ now = MaxTime
    /\ lockMtime = NoBlob
    /\ ls = {}
    /\ ready = {}
    /\ locks = {}
    /\ done = "none"
    /\ answers = NoAnswers
    /\ transfered = {}
    /\ attempt = NoAttempt
    /\ outcome = Pending
    /\ name = NoName
    /\ coded = NotCoded
    /\ access = NoAccess
    /\ said = NotSaid
    /\ host = NoHost
    /\ status = NoCommand
    /\ launch = NoLaunch
    /\ nops = 0
    /\ pushBegun = FALSE
    /\ lastPusher = ""
    /\ downloaded = {}
    /\ confirmed = FALSE

protocol == <<relay, localFile, pc, frame, result, pullers, client, lockTimeout,
              now, failure, tools, history>>

\* The relay gains a blob: one more entry in its listing.
Gain(e) ==
    /\ Cardinality(ls) < MaxListing
    /\ Join(e.dir, e.file) \notin Paths(ls)
    /\ ls' = ls \cup {e}
    /\ ready' = {}
    /\ locks' = {}
    /\ done' = "none"
    /\ answers' = NoAnswers
    /\ transfered' = {}
    /\ UNCHANGED protocol

\* listReady(''): ls = list(self._list(remote_dir)), then the loop.
ListReady ==
    /\ ready' = ReadyLoop(Paths(ls), Paths(ls))
    /\ done' = "listReady"
    /\ answers' = NoAnswers
    /\ transfered' = {}
    /\ UNCHANGED <<ls, locks, protocol>>

\* listCorrupted(''): the early return, or the listing with mtimes and the loop.
ListCorrupted ==
    /\ locks' = IF NothingToList(client[Lister], lockTimeout)
                  THEN {}
                  ELSE CorruptedLoop(ls, client[Lister], lockTimeout, now)
    /\ done' = "listCorrupted"
    /\ answers' = NoAnswers
    /\ transfered' = {}
    /\ UNCHANGED <<ls, ready, protocol>>

\* _list(remote_dir, recursive=False), as hasLock, hasPlaceholder and exists
\* read it: the names of the files of that directory.
DirListing(l, remote_dir) == {e.file : e \in {x \in l : x.dir = remote_dir}}

\* hasLock(remote_file) of Relay (exists(self._lock(filename), dirname)), of
\* IRelay (self._lock(filename) in self.listLocks(remote_dir)) and of PRelay
\* (filename in self.listLocked(remote_dir)).
HasLockOf(cls, l, remote_dir, filename) ==
    CASE cls = "Relay" -> LockName(filename) \in DirListing(l, remote_dir)
      [] cls = "IRelay" ->
            LockName(filename) \in {f \in DirListing(l, remote_dir) : IsLock(f)}
      [] cls = "PRelay" ->
            filename \in {f \in DirListing(l, remote_dir) : IsLock(f)}

\* hasPlaceholder(remote_file) of the three classes.
HasPlaceholderOf(cls, l, remote_dir, filename) ==
    CASE cls = "Relay" -> PlaceholderName(filename) \in DirListing(l, remote_dir)
      [] cls = "IRelay" ->
            PlaceholderName(filename) \in
                {f \in DirListing(l, remote_dir) : IsPlaceholder(f)}
      [] cls = "PRelay" ->
            filename \in {f \in DirListing(l, remote_dir) : IsPlaceholder(f)}

\* The regular file names among those of a listing.
RegularNames == {f \in FileNames : ~IsSpecial(f)}

\* A relay of each class is asked hasLock and hasPlaceholder of one file.
Has(remote_dir, filename) ==
    /\ answers' =
          [path |-> Join(remote_dir, filename),
           lock |-> [cls \in Classes |-> HasLockOf(cls, ls, remote_dir, filename)],
           placeholder |->
               [cls \in Classes |-> HasPlaceholderOf(cls, ls, remote_dir, filename)]]
    /\ ready' = {}
    /\ locks' = {}
    /\ done' = "has"
    /\ transfered' = {}
    /\ UNCHANGED <<ls, protocol>>

\* listTransfered: the first loop splits the listing into the placeholders,
\* decoded, and the other files.
Placeholders(l) ==
    {Join(e.dir, FromPlaceholder(e.file)) : e \in {x \in l : IsPlaceholder(x.file)}}

Others(l) == {Join(e.dir, e.file) : e \in {x \in l : ~IsPlaceholder(x.file)}}

\* listTransfered: `if end2end: return placeholders`; otherwise the second
\* loop decodes the locks among the others.
Transfered(l, end2end) ==
    IF end2end
      THEN Placeholders(l)
      ELSE {IF IsLock(q.file) THEN Join(q.dir, FromLock(q.file)) ELSE q : q \in Others(l)}
               \cup Placeholders(l)

\* listTransfered('', end2end).
ListTransfered(end2end) ==
    /\ transfered' = Transfered(ls, end2end)
    /\ done' = (IF end2end THEN "listTransfered" ELSE "listTransferedAll")
    /\ ready' = {}
    /\ locks' = {}
    /\ answers' = NoAnswers
    /\ UNCHANGED <<ls, protocol>>

ListNext ==
    \/ \E e \in Entries : Gain(e)
    \/ ListReady
    \/ ListCorrupted
    \/ \E d \in Dirs, f \in RegularNames : Has(d, f)
    \/ \E b \in BOOLEAN : ListTransfered(b)

ListSpec == ListInit /\ [][ListNext]_vars

\* ------------------------------------------------------- the codec

\* The attributes of a relay: the slots of Relay, which __init__ fills.
RelayAttributes ==
    {"_temporary_files", "_placeholder_prefix", "_placeholder_suffix",
     "_lock_prefix", "_lock_suffix", "lock_timeout", "_message_hash",
     "_message_prefix", "_message_suffix"}

\* What a message hash returns: a stamp without '.'.
HashValue == <<"7">>

\* Relay._safePlaceholder and Relay._safeLock: a name that already is a
\* placeholder (a lock) is returned as it is.
SafePlaceholder(filename) ==
    IF IsPlaceholder(filename) THEN filename ELSE PlaceholderName(filename)

SafeLock(filename) ==
    IF IsLock(filename) THEN filename ELSE LockName(filename)

\* message[::-1].split('.', 1)[1][::-1]: the part before the last '.', or
\* IndexError if there is none.
HasDot(m) == \E i \in 1..Len(m) : m[i] = "."

LastDot(m) == CHOOSE i \in 1..Len(m) : m[i] = "." /\ \A j \in (i + 1)..Len(m) : m[j] # "."

\* Relay._fromMessage.
FromMessage(filename, hashed) ==
    LET message == SubSeq(filename, Len(MessagePrefix) + 1,
                          Len(filename) - Len(MessageSuffix))
    IN  IF ~hashed THEN [error |-> "", file |-> message]
        ELSE IF HasDot(message)
               THEN [error |-> "", file |-> SubSeq(message, 1, LastDot(message) - 1)]
               ELSE [error |-> "IndexError", file |-> <<>>]

\* Relay._safeMessage and Relay._message: a name that is no message yet goes
\* through _message, which reads self.message_hash, an attribute that no
\* relay has.
SafeMessage(filename, hashed) ==
    IF IsMessage(filename) THEN [error |-> "", file |-> filename]
    ELSE IF "message_hash" \notin RelayAttributes
           THEN [error |-> "AttributeError", file |-> <<>>]
           ELSE IF ~hashed
                  THEN [error |-> "", file |-> MessageName(filename)]
                  ELSE [error |-> "",
                        file |-> MessagePrefix \o filename \o <<".">> \o HashValue
                                     \o MessageSuffix]

\* The kinds of special file.
Kinds == {"placeholder", "lock", "message"}

\* placeholder(F), isPlaceholder of it and fromPlaceholder of it; the same
\* for locks and messages.  with_path applies the function to the file name
\* and joins the directory again.
Coded(n, k) ==
    CASE k = "placeholder" ->
            LET out == SafePlaceholder(n.file) IN
            [op |-> k, out |-> Join(n.dir, out), is |-> IsPlaceholder(out),
             back |-> Join(n.dir, FromPlaceholder(out)), error |-> "",
             kept |-> FALSE]
      [] k = "lock" ->
            LET out == SafeLock(n.file) IN
            [op |-> k, out |-> Join(n.dir, out), is |-> IsLock(out),
             back |-> Join(n.dir, FromLock(out)), error |-> "", kept |-> FALSE]
      [] k = "message" ->
            LET out == SafeMessage(n.file, n.hashed) IN
            IF out.error # ""
              THEN [NotCoded EXCEPT !.op = k, !.error = out.error]
              ELSE LET back == FromMessage(out.file, n.hashed) IN
                   [op |-> k, out |-> Join(n.dir, out.file),
                    is |-> IsMessage(out.file),
                    back |-> Join(n.dir, back.file), error |-> back.error,
                    kept |-> FALSE]

\* AccessController.listFiles: files which name begins with '.' are ignored.
Visible(filename) == filename # <<>> /\ filename[1] # "."

\* The names the codec is applied to: a relay with or without message hash,
\* a directory, any file name.
NameInputs == [dir : Dirs, file : FileNames, hashed : BOOLEAN]

NameInit ==
    /\ lockBlob = NoBlob
    /\ placeholderBlob = NoBlob
    /\ regularBlob = NoBlob
    /\ localFile = [c \in Clients |-> NoBlob]
    /\ pc = [c \in Clients |-> "idle"]
    /\ frame = [c \in Clients |-> IdleFrame]
    /\ result = [c \in Clients |-> "none"]
    /\ pullers = 1
    /\ client = [c \in Clients |-> c]
    /\ lockTimeout = DefaultLockTimeout
    /\ now = 1
    /\ lockMtime = NoBlob
    /\ ls = {}
    /\ ready = {}
    /\ locks = {}
    /\ done = "none"
    /\ answers = NoAnswers
    /\ transfered = {}
    /\ attempt = NoAttempt
    /\ outcome = Pending
    /\ name \in NameInputs
    /\ coded = NotCoded
    /\ access = NoAccess
    /\ said = NotSaid
    /\ host = NoHost
    /\ status = NoCommand
    /\ launch = NoLaunch
    /\ nops = 0
    /\ pushBegun = FALSE
    /\ lastPusher = ""
    /\ downloaded = {}
    /\ confirmed = FALSE

\* What the codec leaves alone.
aside == <<relay, localFile, pc, frame, result, pullers, client, lockTimeout,
           now, listings, failure, controller, commands, launch, history>>

\* placeholder, lock or message of the name, then the test and the way back.
Code(k) ==
    /\ coded' = Coded(name, k)
    /\ UNCHANGED <<name, aside>>

\* The local repository lists the name (AccessController.listFiles).
ListFiles ==
    /\ coded' = [NotCoded EXCEPT !.op = "listFiles", !.kept = Visible(name.file)]
    /\ UNCHANGED <<name, aside>>

\* The relay holds the name alone and lists what is ready (Relay.listReady).
ListAlone ==
    /\ coded' = [NotCoded EXCEPT
                   !.op = "listReady",
                   !.kept = IsReady(Join(name.dir, name.file),
                                    {Join(name.dir, name.file)})]
    /\ UNCHANGED <<name, aside>>

NameNext ==
    \/ \E k \in Kinds : Code(k)
    \/ ListFiles
    \/ ListAlone

NameSpec == NameInit /\ [][NameNext]_vars

\* ------------------------------------------------------- access control

\* AccessAttributes._r and _w: the place of each symbol in a record.
AttrR == 1

AttrW == 2

\* TableEntry.get: the record of the key, or the default.
Get(table, key) == IF table[key] = Absent THEN Undefined ELSE table[key]

\* AccessAttributes._decode, which compares with `is`: under Python 2 the
\* one-character string attributes[attr] is the object kept in _u, _f or _t;
\* under Python 3 attributes[attr] is an integer and no comparison succeeds.
Decode(a, python) ==
    IF python = 3 THEN "ValueError"
    ELSE CASE a = SymU -> "None"
           [] a = SymF -> "False"
           [] a = SymT -> "True"

\* AccessAttributes._encode.
Encode(v) ==
    CASE v = "False" -> SymF
      [] v = "True" -> SymT
      [] v = "None" -> SymU

\* `attributes is self._undefined`, attributes being the string that join has
\* just built: never the object that __init__ stored.
Identical(attributes, kept) == FALSE

\* Faulty variant of SetAttr: the symbol is written over the whole record.
SetAttrWhole(table, attr, key, perm) ==
    [table EXCEPT ![key] = <<Encode(perm), Encode(perm)>>]

\* AccessAttributes._set: the symbol joins what precedes and what follows
\* its place, self._encode(perm).join((attributes[:attr], attributes[attr+1:]));
\* the record is deleted if it is the undefined one, and stored otherwise.
SetAttr(table, attr, key, perm) ==
    LET old == Get(table, key)
        attributes == SubSeq(old, 1, attr - 1) \o <<Encode(perm)>>
                          \o SubSeq(old, attr + 1, Len(old))
    IN  IF Identical(attributes, Undefined)
          THEN [table EXCEPT ![key] = Absent]
          ELSE [table EXCEPT ![key] = attributes]

\* AccessAttributes._ability.  The controller never passes a true `explicit`,
\* so the table is only read.
Ability(a, attr, key) ==
    IF ~a.located THEN "None" ELSE Decode(Get(a.table, key)[attr], a.python)

\* AccessAttributes._is: without make_explicit the ability is tested against
\* False; with it the ability is returned as it is.
Is(a, attr, key, make_explicit) ==
    LET value == Ability(a, attr, key)
    IN  IF value = "ValueError" THEN value
        ELSE IF make_explicit = "None"
               THEN (IF value # "False" THEN "True" ELSE "False")
               ELSE value

\* AccessAttributes.__contains__.
Contains(a, key) == a.located /\ a.table[key] # Absent

\* Faulty variant of InRepository: only the files on disk count.
OnDisk(a, key) == key \in a.local

\* AccessController.__safe__: the file exists, or the table knows it.
InRepository(a, key) == key \in a.local \/ Contains(a, key)

\* AccessController.readable: the loop over the files, each through __safe__
\* and isReadable.
\* The answer is the list kept, or the exception raised on the way.
RECURSIVE ReadableLoop(_, _)
ReadableLoop(a, files) ==
    IF files = <<>> THEN [error |-> "", files |-> <<>>]
    ELSE LET f == Head(files)
             r == IF InRepository(a, f) THEN Is(a, AttrR, f, "None") ELSE "OSError"
         IN  IF r \in {"OSError", "ValueError"} THEN [error |-> r, files |-> <<>>]
             ELSE LET rest == ReadableLoop(a, Tail(files))
                  IN  IF rest.error # "" \/ r # "True" THEN rest
                      ELSE [rest EXCEPT !.files = <<f>> \o rest.files]

\* AccessController.readable.
ReadableOf(a, files) ==
    IF a.mode = "download"
      THEN [error |-> "", files |-> <<>>]
      ELSE ReadableLoop(a, files)

\* AccessController.writable: "path" stands for the local path, "none" for
\* None.
WritableOf(a, f) ==
    IF a.mode = "upload" THEN "none"
    ELSE LET w == IF a.mode = "conservative" /\ f \in a.local
                    THEN "False" ELSE "None"
             v == Is(a, AttrW, f, w)
         IN  IF v = "ValueError" THEN v
             ELSE IF v = "True" THEN "path" ELSE "none"

\* The records a table may hold for a key at the start: none, or any record
\* but the undefined one.
Records ==
    {Absent} \cup ({<<r, w>> : r \in {SymU, SymT, SymF}, w \in {SymU, SymT, SymF}}
                      \ {Undefined})

AccessModes == Modes \cup {"none"}

\* The lists of files handed to readable.
FileLists == {<<>>, <<"f">>, <<"g">>, <<"f", "g">>, <<"g", "f">>}

AccessInit ==
    /\ lockBlob = NoBlob
    /\ placeholderBlob = NoBlob
    /\ regularBlob = NoBlob
    /\ localFile = [c \in Clients |-> NoBlob]
    /\ pc = [c \in Clients |-> "idle"]
    /\ frame = [c \in Clients |-> IdleFrame]
    /\ result = [c \in Clients |-> "none"]
    /\ pullers = 1
    /\ client = [c \in Clients |-> c]
    /\ lockTimeout = DefaultLockTimeout
    /\ now = 1
    /\ lockMtime = NoBlob
    /\ ls = {}
    /\ ready = {}
    /\ locks = {}
    /\ done = "none"
    /\ answers = NoAnswers
    /\ transfered = {}
    /\ attempt = NoAttempt
    /\ outcome = Pending
    /\ name = NoName
    /\ coded = NotCoded
    /\ access \in [python : {2, 3}, mode : AccessModes, located : {TRUE},
                   table : [Files -> Records], local : SUBSET Files]
    /\ said = NotSaid
    /\ host = NoHost
    /\ status = NoCommand
    /\ launch = NoLaunch
    /\ nops = 0
    /\ pushBegun = FALSE
    /\ lastPusher = ""
    /\ downloaded = {}
    /\ confirmed = FALSE

\* What the access controller leaves alone.
apart == <<relay, localFile, pc, frame, result, pullers, client, lockTimeout,
           now, listings, failure, names, commands, launch, history>>

\* The call returns (or raises) out and leaves the table as it is.
Say(o, x, r) ==
    /\ said' = [op |-> o, arg |-> x, out |-> r]
    /\ UNCHANGED <<access, apart>>

\* The call writes the table.
Store(o, x, t) ==
    /\ said' = [op |-> o, arg |-> x, out |-> "done"]
    /\ access' = [access EXCEPT !.table = t]
    /\ UNCHANGED apart

Readable(files) == Say("readable", files, ReadableOf(access, files))

Writable(f) == Say("writable", f, WritableOf(access, f))

\* AccessController.setReadability and setWritability: __safe__, then
\* AccessAttributes._set.
SetAbility(o, attr, f, v) ==
    IF InRepository(access, f)
      THEN Store(o, f, SetAttr(access.table, attr, f, v))
      ELSE Say(o, f, "OSError")

SetReadability(f, v) == SetAbility("setReadability", AttrR, f, v)

SetWritability(f, v) == SetAbility("setWritability", AttrW, f, v)

\* AccessAttributes.unsetReadability and unsetWritability.
UnsetReadability(f) ==
    Store("unsetReadability", f, SetAttr(access.table, AttrR, f, "None"))

UnsetWritability(f) ==
    Store("unsetWritability", f, SetAttr(access.table, AttrW, f, "None"))

\* AccessController.confirmPull.
ConfirmPull(f) ==
    IF access.mode = "conservative"
      THEN Store("confirmPull", f, SetAttr(access.table, AttrW, f, "True"))
      ELSE Say("confirmPull", f, "done")

\* AccessController.confirmPush.
ConfirmPush(f) ==
    IF access.mode = "conservative"
      THEN SetAbility("confirmPush", AttrW, f, "False")
      ELSE Say("confirmPush", f, "done")

AccessNext ==
    \/ \E files \in FileLists : Readable(files)
    \/ \E f \in Files :
          \/ Writable(f)
          \/ \E v \in {"True", "False", "None"} :
                SetReadability(f, v) \/ SetWritability(f, v)
          \/ UnsetReadability(f)
          \/ UnsetWritability(f)
          \/ ConfirmPull(f)
          \/ ConfirmPush(f)

AccessSpec == AccessInit /\ [][AccessNext]_vars

\* ------------------------------------------------------- escalectl

CtlInit ==
    /\ lockBlob = NoBlob
    /\ placeholderBlob = NoBlob
    /\ regularBlob = NoBlob
    /\ localFile = [c \in Clients |-> NoBlob]
    /\ pc = [c \in Clients |-> "idle"]
    /\ frame = [c \in Clients |-> IdleFrame]
    /\ result = [c \in Clients |-> "none"]
    /\ pullers = 1
    /\ client = [c \in Clients |-> c]
    /\ lockTimeout = DefaultLockTimeout
    /\ now = 1
    /\ lockMtime = NoBlob
    /\ ls = {}
    /\ ready = {}
    /\ locks = {}
    /\ done = "none"
    /\ answers = NoAnswers
    /\ transfered = {}
    /\ attempt = NoAttempt
    /\ outcome = Pending
    /\ name = NoName
    /\ coded = NotCoded
    /\ access = NoAccess
    /\ said = NotSaid
    /\ host \in [python : {2, 3}, pidfile : {FALSE}, daemon : {FALSE},
                 children : {0}, orphans : {0}]
    /\ status = NoCommand
    /\ launch = NoLaunch
    /\ nops = 0
    /\ pushBegun = FALSE
    /\ lastPusher = ""
    /\ downloaded = {}
    /\ confirmed = FALSE

\* What escalectl leaves alone.
beside == <<relay, localFile, pc, frame, result, pullers, client, lockTimeout,
            now, listings, failure, names, controller, launch, history>>

\* A command is given and returns r.
Command(c, r) ==
    /\ status.n < MaxCommands
    /\ status' = [n |-> status.n + 1, cmd |-> c, ret |-> r]

\* start: 1 if the pidfile exists; else the daemon is launched, its pid is
\* written to the pidfile, and 0 is returned.
CtlStart ==
    /\ IF host.pidfile
         THEN Command("start", "1") /\ UNCHANGED host
         ELSE /\ Command("start", "0")
              /\ host' = [host EXCEPT !.pidfile = TRUE, !.daemon = TRUE]
    /\ UNCHANGED beside

\* `ppid == pid` in the loop over the lines of ps: pid is the text read from
\* the pidfile, ppid a field of the output of ps, which is text under
\* Python 2 and bytes under Python 3, where the two are never equal.
SamePid(python) == python = 2

\* stop: 1 if there is no pidfile; else the children found in the output of
\* ps are killed, then the daemon, the pidfile is removed, and the function
\* ends without a return statement.  Children that are not killed live on.
CtlStop ==
    /\ IF ~host.pidfile
         THEN Command("stop", "1") /\ UNCHANGED host
         ELSE /\ Command("stop", "None")
              /\ host' = [host EXCEPT
                            !.pidfile = FALSE,
                            !.daemon = FALSE,
                            !.children = 0,
                            !.orphans = IF SamePid(host.python)
                                          THEN host.orphans
                                          ELSE host.orphans + host.children]
    /\ UNCHANGED beside

\* The daemon starts a worker (escale_launcher).
Spawn ==
    /\ host.daemon
    /\ host.children + host.orphans < MaxChildren
    /\ host' = [host EXCEPT !.children = host.children + 1]
    /\ UNCHANGED <<status, beside>>

\* The daemon ends on its own with its workers; the pidfile that start wrote
\* stays.
Quit ==
    /\ host.daemon
    /\ host' = [host EXCEPT !.daemon = FALSE, !.children = 0]
    /\ UNCHANGED <<status, beside>>

CtlNext ==
    \/ CtlStart
    \/ CtlStop
    \/ Spawn
    \/ Quit

CtlSpec == CtlInit /\ [][CtlNext]_vars

\* ------------------------------------------------------- the launcher

\* Bound: a worker is started again at most MaxRestarts times.
MaxRestarts == 2

\* syncacre_launcher: keep_alive=True gives restart_delay 0, an integer gives
\* that many seconds (and keep_alive becomes True).
KeepAlive == {<<"bool", 1>>, <<"int", 0>>, <<"int", 1>>}

RestartDelay(keep_alive) == IF keep_alive[1] = "bool" THEN 0 ELSE keep_alive[2]

\* Process(target=syncacre, ...) started.
Started(n) == [life |-> n, state |-> "running"]

\* The launcher with keep_alive enabled, once it has started one worker per
\* section and set active_workers = len(workers).
Launched(sections, keep_alive) ==
    [delay |-> RestartDelay(keep_alive),
     workers |-> [r \in Repos |-> IF r \in sections THEN Started(0) ELSE NoWorker],
     queue |-> <<>>,
     active |-> Cardinality(sections),
     good |-> 0,
     loop |-> "waiting"]

LauncherInit ==
    /\ lockBlob = NoBlob
    /\ placeholderBlob = NoBlob
    /\ regularBlob = NoBlob
    /\ localFile = [c \in Clients |-> NoBlob]
    /\ pc = [c \in Clients |-> "idle"]
    /\ frame = [c \in Clients |-> IdleFrame]
    /\ result = [c \in Clients |-> "none"]
    /\ pullers = 1
    /\ client = [c \in Clients |-> c]
    /\ lockTimeout = DefaultLockTimeout
    /\ now = 1
    /\ lockMtime = NoBlob
    /\ ls = {}
    /\ ready = {}
    /\ locks = {}
    /\ done = "none"
    /\ answers = NoAnswers
    /\ transfered = {}
    /\ attempt = NoAttempt
    /\ outcome = Pending
    /\ name = NoName
    /\ coded = NotCoded
    /\ access = NoAccess
    /\ said = NotSaid
    /\ host = NoHost
    /\ status = NoCommand
    /\ launch \in {Launched(sections, k) :
                       sections \in (SUBSET Repos) \ {{}}, k \in KeepAlive}
    /\ nops = 0
    /\ pushBegun = FALSE
    /\ lastPusher = ""
    /\ downloaded = {}
    /\ confirmed = FALSE

\* What the launcher and its workers leave alone.
without == <<relay, localFile, pc, frame, result, pullers, client, lockTimeout,
             now, listings, failure, names, controller, commands, history>>

\* A result reaches result_queue: the section and, for a failure, the
\* exception.
Report(section, exception) == [section |-> section, exception |-> exception]

\* The worker ends and puts m on the queue (m = <<>>: it puts nothing).
Ends(r, how, m) ==
    /\ launch.workers[r].state = "running"
    /\ launch' = [launch EXCEPT !.workers[r].state = how, !.queue = @ \o m]
    /\ UNCHANGED without

\* syncacre: manager.run() returns and ui_controller.success(repository,
\* result) passes the result on.
Succeeds(r) == Ends(r, "succeeded", <<Report(r, FALSE)>>)

\* syncacre: manager.run() raises an Exception and ui_controller.failure
\* (repository, exc) passes it on.
Fails(r) ==
    /\ launch.workers[r].life < MaxRestarts
    /\ Ends(r, "failed", <<Report(r, TRUE)>>)

\* syncacre: an exception raised before manager.run() (no address, no
\* protocol, unsupported encryption, missing passphrase), or raised again
\* after ui_controller.failure, ends the process with no result on the queue.
Dies(r) == Ends(r, "dead", <<>>)

\* Faulty variant of Restarted: the worker is terminated and none is started.
RestartedNot(w) == [w EXCEPT !.state = "terminated"]

\* The loop on an exception: workers[section].terminate(), a new Process for
\* the same section, worker.start().
Restarted(w) == Started(w.life + 1)

\* One pass of `while 0 < active_workers`: section, result =
\* result_queue.get(), then the restart or the decrement.
Handle ==
    /\ launch.loop = "waiting"
    /\ launch.queue # <<>>
    /\ LET m == Head(launch.queue) IN
       IF m.exception
         THEN launch' = [launch EXCEPT
                            !.queue = Tail(@),
                            !.workers[m.section] = Restarted(@)]
         ELSE launch' = [launch EXCEPT
                            !.queue = Tail(@),
                            !.active = @ - 1,
                            !.good = @ + 1,
                            !.loop = IF launch.active - 1 > 0
                                       THEN "waiting" ELSE "ended"]
    /\ UNCHANGED without

LauncherNext ==
    \/ \E r \in Repos : Succeeds(r)
    \/ \E r \in Repos : Fails(r)
    \/ \E r \in Repos : Dies(r)
    \/ Handle

\* result_queue.get() returns as soon as a result is on the queue.
LauncherSpec == LauncherInit /\ [][LauncherNext]_vars /\ WF_vars(Handle)

\* ------------------------------------------------------- the claims

\* Client c is between its successful acquireLock(F) and its releaseLock(F).
Holds(c) ==
    /\ frame[c].op \in {"push", "pop", "get", "delete"}
    /\ pc[c] \notin {"idle", "acquire", "acquire_touch"}

\* Client c has finished an operation o, the last it ran.
Finished(c, o) == pc[c] = "idle" /\ frame[c].op = o /\ result[c] # "none"

Quiescent == \A c \in Clients : ~Busy(c)

\* C1: for every interleaving of push, pop, get and delete by two or more
\* clients, at most one client at a time is between its successful
\* acquireLock(F) and its releaseLock(F).
C1_MutualExclusion ==
    \A c, d \in Clients : (c # d) => ~(Holds(c) /\ Holds(d))

\* The only two operations of the run are pushes by c and d, both finished.
TwoPushes(c, d) ==
    /\ c # d
    /\ nops = 2
    /\ Finished(c, "push")
    /\ Finished(d, "push")

\* A finished push went through its transfer: it returned True, or its last
\* call, releaseLock, found the lock gone.
Transferred(c) == result[c] \in {"true", "notfound"}

PushThenPop(a, b) ==
    /\ a # b
    /\ nops = 2
    /\ Finished(a, "push") /\ frame[a].lm /\ result[a] = "true"
    /\ Finished(b, "pop") /\ result[b] = "true"

C4_StillHeld ==
    \A a, b \in Clients :
        ( /\ a # b
          /\ nops = 2
          /\ pullers = 2
          /\ Finished(a, "push") /\ result[a] = "true"
          /\ Finished(b, "pop") /\ result[b] = "true" ) =>
            Exists(regularBlob) /\ Exists(placeholderBlob) /\ ~Exists(lockBlob)

\* The clients whose last operation is a pop of F that returned True.
Poppers == {c \in Clients : Finished(c, "pop") /\ result[c] = "true"}

\* C5: with puller count N >= 2, once N distinct clients have each completed
\* one successful pop of F, the relay no longer holds the regular file F.
C5_DeletedAfterNPops ==
    (pullers >= 2 /\ Quiescent /\ Cardinality(Poppers) >= pullers) =>
        ~Exists(regularBlob)

\* The prior readers recorded by the placeholder that the pop of c read: none
\* when the pop found or read no placeholder.
ReadersSeen(c) ==
    IF Exists(frame[c].tmp) THEN NReads(Content(frame[c].tmp)) ELSE 0

\* No other client is in an operation.
Alone(c) == \A d \in Clients \ {c} : ~Busy(d)

\* The step is the transfer of the pop of c, a client other than the pusher,
\* made while no other client is in an operation, and it removes F from the
\* relay.
PopDeletes(c) ==
    /\ pc[c] = "pop_transfer"
    /\ pc'[c] # "pop_transfer"
    /\ Alone(c)
    /\ lastPusher # c
    /\ Exists(regularBlob)
    /\ ~Exists(regularBlob')

\* C6: a pop removes the regular file F only when the placeholder of F read in
\* that pop records at least N-1 prior readers, whether the placeholder is
\* present or absent.  Stated for the pops made while no other client is in an
\* operation.
C6_DeleteOnlyWhenRead ==
    [][\A c \in Clients : PopDeletes(c) => ReadersSeen(c) >= pullers - 1]_vars

\* C7: F stays on the relay until N distinct clients have downloaded it: the
\* pop that removes F leaves at least N clients having downloaded it.  Stated
\* for the pops that found a placeholder of F, made while no other client is in
\* an operation.
C7_DistinctPullers ==
    [][\A c \in Clients :
          (PopDeletes(c) /\ frame[c].has) => Cardinality(downloaded') >= pullers]_vars

\* The puller identifiers recorded in the placeholder: the lines after the first.
Recorded(ph) ==
    IF Exists(ph) /\ Content(ph) # <<>> THEN Tail(Content(ph)) ELSE <<>>

IsPrefix(s, t) == Len(s) <= Len(t) /\ SubSeq(t, 1, Len(s)) = s

\* The step is made by a pop, a get or a delete.
StepOfPuller ==
    \E c \in Clients :
        /\ frame[c].op \in {"pop", "get", "delete"}
        /\ pc'[c] # pc[c]

\* C8: while F is on the relay, every step leaves every recorded puller in the
\* placeholder of F.  Stated for the steps of pop, get and delete.
C8_PullersOnlyGrow ==
    [][(StepOfPuller /\ Exists(regularBlob) /\ Exists(regularBlob')) =>
          IsPrefix(Recorded(placeholderBlob), Recorded(placeholderBlob'))]_vars

MarksRead(c) ==
    /\ frame[c].op \in {"pop", "get"}
    /\ Alone(c)
    /\ lastPusher # c
    /\ pc[c] \in {"mark", "mark_push"}
    /\ pc'[c] = "release"

\* C10: a pop or get of F by c, when F has a placeholder, leaves the
\* placeholder body equal to its previous body followed by a newline and c,
\* for every puller count.  Stated for the operations made while no other
\* client is in an operation.
C10_AppendsClient ==
    [][\A c \in Clients :
          (MarksRead(c) /\ Exists(placeholderBlob)) =>
              placeholderBlob' = Blob(AppendClient(Content(placeholderBlob), c))]_vars

\* ------------------------------------------------------- recovery

\* The step is the test that the listCorrupted of c makes on the lock of F,
\* and it ends without a transport error.
Tests(c) ==
    /\ pc[c] = "corrupted_info"
    /\ pc'[c] # "corrupted_info"
    /\ result'[c] # "error"
    /\ Exists(lockBlob)

\* The listCorrupted of c returns the lock of F, which goes to repair.
Reports(c) == pc'[c] \in {"repair_exists", "repair_local"}

\* The age of the lock of F, by the mtime that the listing of c reported,
\* exceeds lock_timeout.
Aged(c) ==
    /\ frame[c].mtime # <<>>
    /\ lockTimeout > 0
    /\ now - frame[c].mtime[1] > lockTimeout

\* The lock on the relay was left behind: no client is inside an operation
\* on F.
LeftBehind == Exists(lockBlob) /\ \A d \in Clients : ~Holds(d)

Repairs(c, m) == frame[c].op = "repair" /\ frame[c].lock.mode = m

\* The run so far: a push that acquired the lock of F and failed before its
\* release, and the repair pass of c, which returned; nothing else.
PushFailedThenRepaired(c) ==
    /\ nops = 2
    /\ pushBegun
    /\ Finished(c, "repair")
    /\ result[c] = "true"
    /\ \A d \in Clients \ {c} : ~Busy(d) /\ frame[d].op \in {"none", "push"}

C14_RepairRead ==
    [][\A c \in Clients :
        ( /\ Repairs(c, "r")
          /\ pc[c] = "repair_local"
          /\ pc'[c] # "repair_local"
          /\ result'[c] # "error" ) =>
            /\ ~Exists(localFile'[c])
            /\ pc'[c] = IF Exists(regularBlob) THEN "repair_release" ELSE "repair_place"
            /\ relay' = relay
      ]_vars

\* ------------------------------------------------------- listings

\* The lock entries of the listing.
LockEntries == {e \in ls : IsLock(e.file)}

\* listCorrupted returned the lock of entry e.
Listed(e) == \E l \in locks : l.target = [dir |-> e.dir, file |-> FromLock(e.file)]

\* The mtime reported for e is more than lock_timeout seconds older than now.
OlderThanTimeout(e) == e.mtime # <<>> /\ now - e.mtime[1] > lockTimeout

\* C12 as stated: listCorrupted returns a lock whose recorded owner is empty
\* exactly when its reported mtime is more than lock_timeout seconds older than
\* the current time, and returns every lock whose recorded owner is this
\* client, whatever its age.
C12_Original ==
    (done = "listCorrupted") =>
        \A e \in LockEntries :
            /\ (e.owner = "") => (Listed(e) <=> OlderThanTimeout(e))
            /\ (e.owner # "" /\ e.owner = client[Lister]) => Listed(e)

\* C12 amended: a lock whose recorded owner is empty is returned exactly when
\* lock_timeout is not zero, its mtime is reported and not zero, and that mtime
\* is more than lock_timeout seconds older than the current time; a lock with
\* a recorded owner is returned exactly when that owner is this client,
\* whatever its age.
C12_CorruptedLocks ==
    (done = "listCorrupted") =>
        \A e \in LockEntries :
            /\ (e.owner = "") =>
                  (Listed(e) <=> ( /\ lockTimeout # 0
                                   /\ e.mtime \notin {<<>>, <<0>>}
                                   /\ OlderThanTimeout(e) ))
            /\ (e.owner # "") => (Listed(e) <=> e.owner = client[Lister])

\* C12, its case: listCorrupted has returned a lock without owner, older than
\* lock_timeout, and a lock of this client that is not.
C12_Witness ==
    /\ done = "listCorrupted"
    /\ \E e \in LockEntries : e.owner = "" /\ Listed(e) /\ OlderThanTimeout(e)
    /\ \E e \in LockEntries :
          e.owner # "" /\ e.owner = client[Lister] /\ Listed(e) /\ ~OlderThanTimeout(e)

\* F has a lock in the listing: an entry of the same directory whose name is a
\* lock name that decodes to the name of F.
LockedInListing(e) ==
    \E q \in ls : q.dir = e.dir /\ IsLock(q.file) /\ FromLock(q.file) = e.file

\* C19: listReady returns exactly the names of the listing that are neither
\* locks nor placeholders and whose lock name, in the same directory, is absent
\* from that listing.
C19_ReadyExactly ==
    (done = "listReady") =>
        ready = {[dir |-> e.dir, file |-> e.file] :
                    e \in {x \in ls : /\ ~IsLock(x.file)
                                      /\ ~IsPlaceholder(x.file)
                                      /\ ~LockedInListing(x)}}

\* C19, its case: listReady has returned a file although a lock of its name is
\* listed in another directory.
C19_Witness ==
    /\ done = "listReady"
    /\ \E e \in ls, q \in ls :
          /\ [dir |-> e.dir, file |-> e.file] \in ready
          /\ q.dir # e.dir /\ IsLock(q.file) /\ FromLock(q.file) = e.file

\* C20: listReady never returns a name for which isLock, isPlaceholder or
\* isMessage holds.
C20_NoMarkerReady ==
    (done = "listReady") => \A f \in ready : ~IsSpecial(f.file)

\* ------------------------------------------------------- acquire and release

\* The step is the call by c of push, pop, get or delete with blocking=False:
\* a call, which writes the record of c.
CallsNonBlocking(c) ==
    /\ pc[c] = "idle"
    /\ nops' = nops + 1
    /\ <<frame'[c], result'[c], pc'[c]>> # <<frame[c], result[c], pc[c]>>
    /\ frame'[c].op \in {"push", "pop", "get", "delete"}
    /\ ~frame'[c].blocking

\* C15: push, pop, get and delete called with blocking=False while a lock of F
\* is on the relay return False and leave the lock, the placeholder and the
\* regular file of F as they were.
C15_NonBlockingRefused ==
    [][\A c \in Clients :
          (CallsNonBlocking(c) /\ HasLock(lockBlob)) =>
              (result'[c] = "false" /\ pc'[c] = "idle" /\ relay' = relay)]_vars

\* C15, its case: a push and a pop were turned away by a lock that is still
\* there.
C15_Witness ==
    \E c, d \in Clients :
        /\ Finished(c, "push") /\ result[c] = "false"
        /\ Finished(d, "pop") /\ result[d] = "false"
        /\ Exists(lockBlob)

\* C16: a blocking push, pop or get of F by B does not leave its poll, hence
\* does not write its own lock, while it observes a lock of F; once A has
\* released the lock and no other client takes it, B acquires the lock on a
\* later poll and its operation returns True.
C16_BlockingWaits ==
    /\ [][\A b \in Clients :
            (pc[b] = "acquire" /\ HasLock(lockBlob)) =>
                ( /\ pc'[b] = "acquire"
                  /\ Exists(lockBlob') => lock' = lock )]_vars
    /\ (pc["B"] = "acquire") ~> (pc["B"] = "idle" /\ result["B"] = "true")

\* C16, its case: B polls for the lock of F, which A has just released.
C16_Witness ==
    /\ pc["B"] = "acquire"
    /\ ~Exists(lockBlob)
    /\ Finished("A", "push")
    /\ result["A"] = "true"

\* C17: releaseLock(F) called when the lock of F is already gone does not
\* raise out of the enclosing push, pop, get, delete or repair, which returns
\* as if the lock had been released.
C17_ReleaseNotFatal ==
    [][\A c \in Clients :
          ( /\ pc[c] \in {"release", "repair_release"}
            /\ ~Exists(lockBlob)
            /\ pc'[c] = "idle"
            /\ result'[c] # "error" ) => result'[c] = "true"]_vars

\* C18: an error 24 (too many open files) raised by a call to the blob store
\* made in a lock operation or in list, push, pop or get leaves the method as
\* UnrecoverableError, getLockInfo and releasePlace included; an error with
\* any other number raised on the way of push or pop leaves it unchanged.
C18_Escalated ==
    (outcome # Pending) =>
        /\ (attempt.raised = Exc("EnvironmentError", 24)) =>
               outcome = UnrecoverableError
        /\ (attempt.raised.errno # 24 /\ attempt.site \in PushPopSites) =>
               outcome = attempt.raised

\* ------------------------------------------------------- names of markers

\* The path under study.
ThePath == Join(name.dir, name.file)

\* C21: for every regular path F, isPlaceholder(placeholder(F)) holds and
\* fromPlaceholder(placeholder(F)) = F; the same for lock and for message,
\* with and without a message hash, none of the calls raising.
C21_RoundTrip ==
    (coded.op \in Kinds /\ ~IsSpecial(name.file)) =>
        (coded.error = "" /\ coded.is /\ coded.back = ThePath)

\* The names of the special files of a regular file name.
Markers(f) == {SafePlaceholder(f), SafeLock(f), MessageName(f)}

\* C22: a name that listFiles or listReady returns is no placeholder, no lock
\* and no message, and its three marker names differ from each other and
\* from those of any other name returned.
C22_NoCollision ==
    (coded.op \in {"listFiles", "listReady"} /\ coded.kept) =>
        /\ ~IsSpecial(name.file)
        /\ Cardinality(Markers(name.file)) = 3
        /\ \A g \in FileNames :
              (g # name.file /\ ~IsSpecial(g)) =>
                  Markers(g) \cap Markers(name.file) = {}

\* C23: for every listing of the relay and every regular file F, hasLock(F)
\* is the same for Relay, IRelay and PRelay, and so is hasPlaceholder(F).
C23_SameAnswers ==
    (answers # NoAnswers) =>
        \A c, d \in Classes :
            /\ answers.lock[c] = answers.lock[d]
            /\ answers.placeholder[c] = answers.placeholder[d]

\* ------------------------------------------------------- access store

\* C24: after any sequence of setReadability, setWritability, unset,
\* confirmPull and confirmPush, no key of the access store holds the record
\* undefined/undefined.
C24_NoZombie == \A f \in Files : access.table[f] # Undefined

\* The symbols that the table holds for a file.
SymbolR(f) == Get(access.table, f)[AttrR]

SymbolW(f) == Get(access.table, f)[AttrW]

\* The files of a list whose r symbol is not denied, in the order of the list.
RECURSIVE NotDenied(_)
NotDenied(files) ==
    IF files = <<>> THEN <<>>
    ELSE (IF SymbolR(Head(files)) # SymF THEN <<Head(files)>> ELSE <<>>)
             \o NotDenied(Tail(files))

\* The files of the list are in the local repository.
AllLocal(files) == \A i \in 1..Len(files) : files[i] \in access.local

\* C25: in upload mode writable(F) is none whatever the table holds; in
\* download mode readable(files) is the empty list; in shared mode readable
\* keeps exactly the files whose r symbol is not denied and writable(F) is
\* the local path exactly when the w symbol of F is not denied.
C25_Modes ==
    /\ (said.op = "writable" /\ access.mode = "upload") => said.out = "none"
    /\ (said.op = "readable" /\ access.mode = "download") =>
           said.out = [error |-> "", files |-> <<>>]
    /\ (said.op = "readable" /\ access.mode = "shared" /\ AllLocal(said.arg)) =>
           said.out = [error |-> "", files |-> NotDenied(said.arg)]
    /\ (said.op = "writable" /\ access.mode = "shared") =>
           said.out = (IF SymbolW(said.arg) # SymF THEN "path" ELSE "none")

\* C26: in conservative mode writable(F) is none when F exists locally and no
\* w permission is recorded; confirmPull(F) records w allowed and writable(F)
\* then is the local path although F exists; confirmPush(F) records w denied
\* and writable(F) then is none.  In the other modes confirmPull and
\* confirmPush leave the store as it is.
C26_Conservative ==
    [][ /\ (said'.op = "writable" /\ access.mode = "conservative"
                /\ said'.arg \in access.local) =>
               said'.out = (IF SymbolW(said'.arg) = SymT THEN "path" ELSE "none")
        /\ (said'.op = "confirmPull" /\ access.mode = "conservative") =>
               access'.table[said'.arg][AttrW] = SymT
        /\ (said'.op = "confirmPush" /\ access.mode = "conservative"
                /\ said'.out = "done") =>
               access'.table[said'.arg][AttrW] = SymF
        /\ (said'.op \in {"confirmPull", "confirmPush"}
                /\ access.mode # "conservative") => access' = access ]_vars

\* The step is a call of setReadability or setWritability.
Sets == said'.op \in {"setReadability", "setWritability"}

Runs(c) == status'.n = status.n + 1 /\ status'.cmd = c

\* C28: start returns 1 and launches nothing when the pidfile exists, and
\* returns 0 otherwise; stop returns 1 and kills nothing when there is no
\* pidfile, and otherwise leaves neither the daemon nor any of its children
\* running, removes the pidfile and ends with success (0, or no value, which
\* exits with 0).
C28_StartStop ==
    [][ /\ (Runs("start") /\ host.pidfile) => (status'.ret = "1" /\ host' = host)
        /\ (Runs("start") /\ ~host.pidfile) => status'.ret = "0"
        /\ (Runs("stop") /\ ~host.pidfile) => (status'.ret = "1" /\ host' = host)
        /\ (Runs("stop") /\ host.pidfile) =>
               /\ status'.ret \in {"0", "None"}
               /\ ~host'.pidfile
               /\ ~host'.daemon
               /\ host'.children = 0
               /\ host'.orphans = host.orphans ]_vars

\* ------------------------------------------------------- push and get

\* The step is made by client c inside its operation o.
StepIn(c, o) == frame[c].op = o /\ pc[c] # "idle" /\ pc'[c] # pc[c]

\* Client c, pushing with a last-modified value, has written the placeholder
\* of F and not yet the file.
PlaceholderAhead(c) ==
    frame[c].op = "push" /\ frame[c].lm /\ pc[c] = "push_transfer"

\* The lock of F is there and names c as its owner.
OwnsLock(c) == Exists(lockBlob) /\ Content(lockBlob).owner = client[c]

\* C29: the calls of a push come in the order lock of F written with mode
\* 'w', placeholder of F overwritten with the last-modified value (when
\* given), F written whole, lock removed; and in no state is the new
\* placeholder there without the new file while the lock of the pusher is
\* not.
C29_PushOrder ==
    [][\A c \in Clients :
          /\ (StepIn(c, "push") /\ pc[c] = "acquire_touch"
                  /\ result'[c] # "error") =>
                 /\ lockBlob' = Blob(LockInfo(client[c], "w"))
                 /\ pc'[c] = (IF frame[c].lm THEN "push_placeholder"
                                             ELSE "push_transfer")
          /\ (StepIn(c, "push") /\ pc[c] = "push_placeholder"
                  /\ result'[c] # "error") =>
                 /\ placeholderBlob' = Blob(<<LastModified>>)
                 /\ pc'[c] = "push_transfer"
          /\ (StepIn(c, "push") /\ pc[c] = "push_transfer"
                  /\ result'[c] # "error") =>
                 /\ regularBlob' = localFile[c]
                 /\ pc'[c] = "release"
          /\ (StepIn(c, "push") /\ result'[c] = "true") =>
                 (pc[c] = "release" /\ ~Exists(lockBlob'))
          /\ PlaceholderAhead(c)' => OwnsLock(c)' ]_vars

\* The client is among the readers that the placeholder records.
Marked(ph, id) == \E i \in 1..Len(Recorded(ph)) : Recorded(ph)[i] = id

C31_DeleteReturnsTrue ==
    [][\A c \in Clients :
          (/\ StepIn(c, "delete")
           /\ pc[c] \in {"mark", "mark_push", "release"}
           /\ pc'[c] = "idle"
           /\ result'[c] # "error"
           /\ Alone(c)) =>
              /\ result'[c] = "true"
              /\ ~Exists(regularBlob')
              /\ ~Exists(lockBlob') ]_vars

\* ------------------------------------------------------- lock information

\* The step is the getLockInfo of the listCorrupted of c, and the lock it
\* reads is appended to the result.
ListsLock(c) ==
    /\ pc[c] = "corrupted_info"
    /\ pc'[c] # pc[c]
    /\ IsCorrupted(GetLockInfo(lockBlob), frame[c].mtime, client[c], lockTimeout, now)

\* C32: a lock blob of F that cannot be read gives a LockInfo without owner
\* and without mode; and every lock that listCorrupted appends to its result
\* has F as its target.
C32_TargetSet ==
    [][\A c \in Clients :
          /\ ~Exists(lockBlob) => GetLockInfo(lockBlob) = ZeroLockInfo
          /\ ListsLock(c) => TargetOf(lockBlob) = <<"F">> ]_vars

\* ------------------------------------------------------- placeholder body

\* The body reads: the last-modified value, then identifiers of clients, the
\* last line not being empty.
WellFormed(body) ==
    /\ Len(body) >= 1
    /\ body[1] = LastModified
    /\ \A i \in 2..Len(body) : \E c \in Clients : client[c] # "" /\ body[i] = client[c]

\* C33: after any sequence of push, pop, get and delete, every placeholder
\* blob on the relay has the last-modified value of the pushed file as its
\* first line, followed by one line per reading client, with no trailing
\* newline.
C33_PlaceholderBody ==
    Exists(placeholderBlob) => WellFormed(Content(placeholderBlob))

\* ------------------------------------------------------- transfered files

\* C34: listTransfered with end2end=True returns no name whose regular file is
\* in the same listing.
C34_ContentGone ==
    (done = "listTransfered") => transfered \cap Paths(ls) = {}

\* ------------------------------------------------------- access records

\* The value is exactly two symbols.
TwoSymbols(v) == Len(v) = 2 /\ \A i \in 1..2 : v[i] \in {SymU, SymT, SymF}

\* The calls that set the r symbol and those that set the w symbol.
SetsR == {"setReadability", "unsetReadability"}

SetsW == {"setWritability", "unsetWritability", "confirmPull", "confirmPush"}

\* The call just made has written the table at the place `attr` of its key:
\* the other symbol of that key and the records of the other keys are as
\* before.
Framed(attr) ==
    /\ Get(access'.table, said'.arg)[attr] = Get(access.table, said'.arg)[attr]
    /\ \A k \in Files \ {said'.arg} : access'.table[k] = access.table[k]

\* C35: after any sequence of set, unset and confirm calls every value stored
\* is exactly two symbols over ' ', '+' and '-'; a call that sets the r symbol
\* of a key leaves its w symbol as it was, one that sets the w symbol leaves
\* the r symbol, and neither changes the record of another key.
C35_TwoSymbols ==
    [][/\ \A k \in Files :
              access'.table[k] # Absent => TwoSymbols(access'.table[k])
       /\ (said'.op \in SetsR /\ said'.out = "done") => Framed(AttrW)
       /\ (said'.op \in SetsW /\ said'.out = "done") => Framed(AttrR)]_vars

\* C35, its case: the r symbol of a key has just been set while its w symbol
\* is defined and the other key has a record.
C35_Witness ==
    /\ said.op = "setReadability"
    /\ said.out = "done"
    /\ access.table[said.arg] # Absent
    /\ access.table[said.arg][AttrR] = SymF
    /\ access.table[said.arg][AttrW] = SymT
    /\ \E k \in Files \ {said.arg} : access.table[k] # Absent

\* ------------------------------------------------------- keep_alive

\* The sections of the configuration file.
Sections == {r \in Repos : launch.workers[r].state # "none"}

\* The step is the pass of the loop that receives an exception from section r.
Receives(r) ==
    /\ launch.loop = "waiting"
    /\ Len(launch'.queue) < Len(launch.queue)
    /\ Head(launch.queue) = Report(r, TRUE)

\* The loop ends exactly when as many non-exception results have been
\* received as there are sections.
EndsWhenAllGood == (launch.loop = "ended") <=> (launch.good = Cardinality(Sections))

\* C36 as stated: whenever the worker of a section has ended otherwise than
\* by a non-exception result, a worker of that section is running again later.
C36_Original ==
    \A r \in Repos :
        (launch.workers[r].state \in {"failed", "dead"})
            ~> (launch.workers[r].state = "running")

\* C36: with keep_alive enabled, the pass of the loop that receives an
\* exception from a section starts a new worker for that section and ends no
\* other; the loop ends exactly when the non-exception results received are
\* as many as the sections; and a section whose worker has reported an
\* exception has a running worker again later.  A worker that ends without a
\* result is not replaced.
C36_KeepAlive ==
    /\ [][\A r \in Repos :
            Receives(r) =>
                /\ launch'.workers[r] = Started(launch.workers[r].life + 1)
                /\ \A q \in Repos \ {r} : launch'.workers[q] = launch.workers[q]
                /\ launch'.loop = "waiting"]_vars
    /\ [](EndsWhenAllGood)
    /\ \A r \in Repos :
          (launch.workers[r].state = "failed") ~> (launch.workers[r].state = "running")

\* C36, its case: the loop has ended after a worker was started again.
C36_Witness ==
    /\ launch.loop = "ended"
    /\ \E r \in Repos : launch.workers[r].life > 0
    /\ Cardinality(Sections) = 2

\* ------------------------------------------------------- locks left behind

\* The lock of F is there and records the identifier of c as its owner.
LeftBy(c) == Exists(lockBlob) /\ Content(lockBlob).owner = client[c]

\* The step is the getLockInfo of the listCorrupted of c, made on a lock that
\* records c as its owner, and it does not fail.
InspectsOwn(c) ==
    /\ pc[c] = "corrupted_info"
    /\ pc'[c] # pc[c]
    /\ LeftBy(c)
    /\ result'[c] # "error"

\* listCorrupted returns the lock: the repair of that lock begins.
Returns(c) ==
    /\ pc'[c] = RepairBranch(Content(lockBlob))
    /\ frame'[c].lock = Content(lockBlob)

\* The lock that a successful acquireLock writes, and what a failure of the
\* operation after it leaves of the lock.
LockStays(c) ==
    /\ (StepIn(c, frame[c].op) /\ pc[c] = "acquire_touch" /\ result'[c] # "error") =>
           lockBlob' = Blob(LockInfo(client[c],
                                     IF frame[c].op = "push" THEN "w" ELSE "r"))
    /\ (Holds(c) /\ pc'[c] = "idle" /\ result'[c] \in {"error", "notfound"}) =>
           lock' = lock

Releases(c) ==
    /\ frame[c].op \in {"push", "pop", "get", "delete"}
    /\ pc[c] = "release"
    /\ pc'[c] = "idle"
    /\ Exists(lockBlob)
    /\ ~Exists(lockBlob')

\* C38: the releaseLock of c removes the lock blob of F only when the blob
\* records c as its owner, so that no release removes the lock written by
\* another client that is still inside its operation on F.
C38_ReleaseOwnLock ==
    [][\A c \in Clients :
          Releases(c) =>
              /\ Content(lockBlob).owner = client[c]
              /\ \A d \in Clients \ {c} :
                    ~(Holds(d) /\ Content(lockBlob).owner = client[d]) ]_vars

\* ------------------------------------------------------- repair and live peers

\* listCorrupted has returned a lock to c, which is repairing it.
Repairing(c) ==
    frame[c].op = "repair" /\ pc[c] \notin {"idle", "corrupted_list", "corrupted_info"}

\* c is repairing the lock that d wrote, while d is still inside its
\* operation on F.
RepairsLive(c, d) ==
    Repairing(c) /\ Holds(d) /\ frame[c].lock.owner = client[d]

====
